---- MODULE Spec2Model ----
(***************************************************************************)
(* OpenJupy middleware: the traceback parser, the fix-suggestion catalog,  *)
(* the package-name resolver, the error analyzer and the response          *)
(* wrappers, as a state machine over Python values.                        *)
(*                                                                         *)
(* Python values are represented as follows.                               *)
(*   str            a TLA+ string (a sequence of characters)               *)
(*   Optional[T]    <<>> for None, <<v>> for a present value v             *)
(*   dict[str, V]   a function whose domain is the set of keys             *)
(*   list           a sequence                                             *)
(*   a call         [status |-> "return", exc |-> "", value |-> <<v>>]     *)
(*                  or [status |-> "raise", exc |-> <type>, value |-> <<>>]*)
(* Response dicts live in a heap of objects addressed by their index, so   *)
(* that copying and aliasing are different things.                         *)
(*                                                                         *)
(* A function of the source is one operator of the same name; where the    *)
(* function keeps an intermediate result in a local variable that it reads *)
(* several times, the rest of its body is a second operator that takes the *)
(* local as a parameter.                                                   *)
(***************************************************************************)
EXTENDS Integers, Sequences, FiniteSets, TLC

VARIABLES
    PACKAGE_NAME_MAP,   \* module-level dict of mappings/packages.py
    ERROR_FIX_MAP,      \* module-level dict of mappings/error_fixes.py
    import_name,        \* argument of get_correct_package_name
    package_name,       \* its result
    traceback_text,     \* argument of parse_traceback / analyze_error
    parsed,             \* result of parse_traceback
    analysis,           \* result of analyze_error
    heap,               \* the dict objects allocated so far
    call,               \* the last enrichment call: entry point, arguments
    ret                 \* its result

vars == <<PACKAGE_NAME_MAP, ERROR_FIX_MAP, import_name, package_name,
          traceback_text, parsed, analysis, heap, call, ret>>

-----------------------------------------------------------------------------
(* Bounds of the model. *)

\* dotted components appended to a root name in the resolver's inputs
MaxSubmodules == 2
\* lines placed before the final line of a traceback text
MaxPrefix == 2
\* enrichment calls chained on one response
MaxCalls == 2
\* variable names in the namespace passed to wrap_execution_success
MaxNames == 3

-----------------------------------------------------------------------------
(* Python values. *)

None == <<>>
Some(v) == <<v>>

Return(v) == [status |-> "return", exc |-> "", value |-> <<v>>]
Raise(e) == [status |-> "raise", exc |-> e, value |-> <<>>]
NotCalled == [status |-> "none", exc |-> "", value |-> <<>>]

-----------------------------------------------------------------------------
(* Python str operations, character by character. *)

Ch(s, i) == SubSeq(s, i, i)

Min(S) == CHOOSE x \in S : \A y \in S : x <= y
Max(S) == CHOOSE x \in S : \A y \in S : x >= y

\* s.startswith(p)
StartsWith(s, p) == Len(s) >= Len(p) /\ SubSeq(s, 1, Len(p)) = p

\* s.endswith(p)
EndsWith(s, p) == Len(s) >= Len(p) /\ SubSeq(s, Len(s) - Len(p) + 1, Len(s)) = p

\* sub occurs in s at index i
OccursAt(s, sub, i) == i >= 1 /\ i + Len(sub) - 1 <= Len(s) /\ SubSeq(s, i, i + Len(sub) - 1) = sub

\* s.find(sub, from), 1-based, 0 when absent
Find(s, sub, from) ==
    IF \E i \in from..(Len(s) - Len(sub) + 1) : OccursAt(s, sub, i)
    THEN CHOOSE i \in from..(Len(s) - Len(sub) + 1) :
             /\ OccursAt(s, sub, i)
             /\ \A j \in from..(i - 1) : ~OccursAt(s, sub, j)
    ELSE 0

\* sub in s
Contains(s, sub) == Find(s, sub, 1) # 0

Whitespace == {" ", "\t", "\n", "\r", "\f"}

\* s.strip()
Strip(s) ==
    IF \A i \in 1..Len(s) : Ch(s, i) \in Whitespace THEN ""
    ELSE LET first == CHOOSE i \in 1..Len(s) :
                          /\ Ch(s, i) \notin Whitespace
                          /\ \A j \in 1..(i - 1) : Ch(s, j) \in Whitespace
             drop == CHOOSE k \in 0..(Len(s) - 1) :
                         /\ Ch(s, Len(s) - k) \notin Whitespace
                         /\ \A j \in 0..(k - 1) : Ch(s, Len(s) - j) \in Whitespace
         IN SubSeq(s, first, Len(s) - drop)

\* s.split(sep): never empty, one more element than occurrences of sep
RECURSIVE SplitFrom(_, _, _)
SplitAt(s, sep, from, i) ==
    IF i = 0 THEN <<SubSeq(s, from, Len(s))>>
    ELSE <<SubSeq(s, from, i - 1)>> \o SplitFrom(s, sep, i + Len(sep))

SplitFrom(s, sep, from) == SplitAt(s, sep, from, Find(s, sep, from))

Split(s, sep) == SplitFrom(s, sep, 1)

\* s.split(sep, 1)
SplitOnceAt(s, sep, i) ==
    IF i = 0 THEN <<s>>
    ELSE <<SubSeq(s, 1, i - 1), SubSeq(s, i + Len(sep), Len(s))>>

SplitOnce(s, sep) == SplitOnceAt(s, sep, Find(s, sep, 1))

\* sep.join(parts)
RECURSIVE Join(_, _)
Join(sep, parts) ==
    IF parts = <<>> THEN ""
    ELSE IF Len(parts) = 1 THEN parts[1]
    ELSE parts[1] \o sep \o Join(sep, Tail(parts))

-----------------------------------------------------------------------------
(* mappings/packages.py *)

PackageNameMapLiteral ==
       ("cv2" :> "opencv-python")
    @@ ("sklearn" :> "scikit-learn")
    @@ ("PIL" :> "pillow")
    @@ ("yaml" :> "pyyaml")
    @@ ("bs4" :> "beautifulsoup4")
    @@ ("dateutil" :> "python-dateutil")
    @@ ("dotenv" :> "python-dotenv")
    @@ ("jwt" :> "pyjwt")
    @@ ("magic" :> "python-magic")
    @@ ("serial" :> "pyserial")
    @@ ("usb" :> "pyusb")
    @@ ("wx" :> "wxpython")
    @@ ("gi" :> "pygobject")
    @@ ("cairo" :> "pycairo")
    @@ ("Crypto" :> "pycryptodome")
    @@ ("OpenSSL" :> "pyopenssl")
    @@ ("MySQLdb" :> "mysqlclient")
    @@ ("psycopg2" :> "psycopg2-binary")
    @@ ("lxml" :> "lxml")
    @@ ("skimage" :> "scikit-image")
    @@ ("tensorflow" :> "tensorflow")
    @@ ("tf" :> "tensorflow")
    @@ ("torch" :> "torch")
    @@ ("torchvision" :> "torchvision")
    @@ ("transformers" :> "transformers")
    @@ ("langchain" :> "langchain")
    @@ ("openai" :> "openai")
    @@ ("anthropic" :> "anthropic")
    @@ ("httpx" :> "httpx")
    @@ ("aiohttp" :> "aiohttp")
    @@ ("fastapi" :> "fastapi")
    @@ ("flask" :> "flask")
    @@ ("django" :> "django")
    @@ ("sqlalchemy" :> "sqlalchemy")
    @@ ("alembic" :> "alembic")
    @@ ("celery" :> "celery")
    @@ ("redis" :> "redis")
    @@ ("boto3" :> "boto3")
    @@ ("botocore" :> "botocore")
    @@ ("google.cloud" :> "google-cloud-core")
    @@ ("azure" :> "azure-core")

\* dict.get(key, default)
DictGet(d, key, default) == IF key \in DOMAIN d THEN d[key] ELSE default

\* variant: an unmapped name falls back to its leading component
package_name_base_only(name) ==
    LET base_module == Split(name, ".")[1]
    IN DictGet(PACKAGE_NAME_MAP, base_module, base_module)

get_correct_package_name(name) ==
    LET base_module == Split(name, ".")[1]
    IN DictGet(PACKAGE_NAME_MAP, base_module, name)

-----------------------------------------------------------------------------
(* mappings/error_fixes.py *)

\* the FixSuggestion dataclass
FixSuggestion(message, action) == [message_template |-> message, action_template |-> action]

ErrorFixMapLiteral ==
       ("ModuleNotFoundError" :> FixSuggestion(
           "Module '{module}' is not installed.",
           Some("uv add {package}")))
    @@ ("ImportError" :> FixSuggestion(
           "Cannot import '{name}' from '{module}'.",
           Some("Check if the module is installed correctly: uv add {package}")))
    @@ ("FileNotFoundError" :> FixSuggestion(
           "File or directory not found: '{path}'.",
           Some("Verify the path exists. Current directory: use os.getcwd() to check.")))
    @@ ("PermissionError" :> FixSuggestion(
           "Permission denied: '{path}'.",
           Some("Check file permissions or run with appropriate privileges.")))
    @@ ("NameError" :> FixSuggestion(
           "Name '{name}' is not defined.",
           Some("Define the variable before use, or check for typos.")))
    @@ ("AttributeError" :> FixSuggestion(
           "'{type}' object has no attribute '{attribute}'.",
           Some("Check the object type and available attributes using dir().")))
    @@ ("TypeError" :> FixSuggestion(
           "Type error in operation.",
           Some("Check argument types. Use type() to inspect values.")))
    @@ ("ValueError" :> FixSuggestion(
           "Invalid value provided.",
           Some("Check the expected value format or range.")))
    @@ ("KeyError" :> FixSuggestion(
           "Key '{key}' not found in dictionary.",
           Some("Use .get(key, default) for safe access, or check available keys.")))
    @@ ("IndexError" :> FixSuggestion(
           "Index out of range.",
           Some("Check sequence length with len() before accessing.")))
    @@ ("ZeroDivisionError" :> FixSuggestion(
           "Division by zero.",
           Some("Add a check for zero before dividing.")))
    @@ ("SyntaxError" :> FixSuggestion(
           "Syntax error in code.",
           Some("Check for missing colons, parentheses, or quotes.")))
    @@ ("IndentationError" :> FixSuggestion(
           "Indentation error.",
           Some("Use consistent indentation (4 spaces recommended).")))
    @@ ("ConnectionError" :> FixSuggestion(
           "Connection failed.",
           Some("Check network connectivity and the target URL/host.")))
    @@ ("TimeoutError" :> FixSuggestion(
           "Operation timed out.",
           Some("Increase timeout or check if the service is responding.")))
    @@ ("MemoryError" :> FixSuggestion(
           "Out of memory.",
           Some("Reduce data size, use generators, or process in chunks.")))
    @@ ("RecursionError" :> FixSuggestion(
           "Maximum recursion depth exceeded.",
           Some("Add a base case or convert to iterative approach.")))

-----------------------------------------------------------------------------
(* str.format with keyword arguments, and int(), as the handler uses them. *)

\* template.format with the dict values as keywords: the text up to a "{" is
\* copied, the field name up to the next "}" is looked up in values; a missing
\* name raises KeyError.
RECURSIVE FormatFrom(_, _, _)
FormatRest(prefix, value, rest) ==
    IF rest.status = "raise" THEN rest
    ELSE Return(prefix \o value \o rest.value[1])

FormatField(template, values, from, open, close) ==
    IF open = 0
    THEN IF close = 0 THEN Return(SubSeq(template, from, Len(template)))
         ELSE Raise("ValueError")
    ELSE IF close < open THEN Raise("ValueError")
    ELSE LET field == SubSeq(template, open + 1, close - 1)
         IN IF field = "" THEN Raise("IndexError")
            ELSE IF field \notin DOMAIN values THEN Raise("KeyError")
            ELSE FormatRest(SubSeq(template, from, open - 1), values[field],
                            FormatFrom(template, values, close + 1))

FormatFrom(template, values, from) ==
    FormatField(template, values, from,
                Find(template, "{", from), Find(template, "}", from))

Format(template, values) == FormatFrom(template, values, 1)

Digits == {"0", "1", "2", "3", "4", "5", "6", "7", "8", "9"}

DigitValue(c) ==
    CASE c = "0" -> 0 [] c = "1" -> 1 [] c = "2" -> 2 [] c = "3" -> 3 [] c = "4" -> 4
      [] c = "5" -> 5 [] c = "6" -> 6 [] c = "7" -> 7 [] c = "8" -> 8 [] c = "9" -> 9

DigitChar(d) == SubSeq("0123456789", d + 1, d + 1)

RECURSIVE StrToNat(_)
StrToNat(digits) ==
    IF Len(digits) = 0 THEN 0
    ELSE 10 * StrToNat(SubSeq(digits, 1, Len(digits) - 1)) + DigitValue(Ch(digits, Len(digits)))

\* the interpreter's limit on the length of a decimal string int() converts
\* (sys.int_info.default_max_str_digits)
IntMaxStrDigits == 4300

\* int(digits) for a non-empty string of decimal digits
PyInt(digits) ==
    IF Len(digits) > IntMaxStrDigits THEN Raise("ValueError")
    ELSE Return(StrToNat(digits))

RECURSIVE NatToStr(_)
NatToStr(n) == IF n < 10 THEN DigitChar(n) ELSE NatToStr(n \div 10) \o DigitChar(n % 10)

\* str(n) for an int
IntToStr(n) == IF n < 0 THEN "-" \o NatToStr(-n) ELSE NatToStr(n)

-----------------------------------------------------------------------------
(* middleware/error_handler.py: the compiled patterns and pattern.search.   *)
(* A search returns None or Some(groups).                                   *)

Quotes == {"'", "\""}

IsQuote(s, i) == i >= 1 /\ i <= Len(s) /\ Ch(s, i) \in Quotes
NonQuote(s, i) == i >= 1 /\ i <= Len(s) /\ Ch(s, i) \notin Quotes

\* the index after the longest run of non-quote characters that starts at i
RunEnd(s, i) ==
    CHOOSE j \in i..(Len(s) + 1) :
        /\ j = Len(s) + 1 \/ Ch(s, j) \in Quotes
        /\ \A k \in i..(j - 1) : Ch(s, k) \notin Quotes

\* ['\"]?([^'\"]+) tried at p: the index where the group starts, 0 for no match
GroupStart(s, p) ==
    IF IsQuote(s, p) /\ NonQuote(s, p + 1) THEN p + 1
    ELSE IF NonQuote(s, p) THEN p
    ELSE 0

\* the greedy group ([^'\"]+) that starts at g
QuotedGroup(s, g) == Some(<<SubSeq(s, g, RunEnd(s, g) - 1)>>)

\* the leftmost of the indexes at which the pattern matches
SearchQuotedFrom(s, literal, at) ==
    IF at = {} THEN None
    ELSE QuotedGroup(s, GroupStart(s, Min(at) + Len(literal)))

\* <literal>['\"]?([^'\"]+)['\"]? searched in s: leftmost match, greedy group
SearchQuotedAfter(s, literal) ==
    SearchQuotedFrom(s, literal,
        {i \in 1..(Len(s) + 1) :
            /\ Len(literal) = 0 \/ OccursAt(s, literal, i)
            /\ GroupStart(s, i + Len(literal)) # 0})

\* MODULE_NOT_FOUND_PATTERN.search
MODULE_NOT_FOUND_PATTERN(s) == SearchQuotedAfter(s, "No module named ")

\* IMPORT_ERROR_PATTERN.search
IMPORT_ERROR_PATTERN(s) == SearchQuotedAfter(s, "cannot import name ")

\* KEY_ERROR_PATTERN.search
KEY_ERROR_PATTERN(s) == SearchQuotedAfter(s, "")

\* variant: the pattern without its errno prefix
FILE_NOT_FOUND_PATTERN_no_errno(s) == SearchQuotedAfter(s, "No such file or directory: ")

\* FILE_NOT_FOUND_PATTERN.search
FILE_NOT_FOUND_PATTERN(s) == SearchQuotedAfter(s, "[Errno 2] No such file or directory: ")

\* ([^'\"]+)['\"]?<suffix> tried with the group starting at st: the group
\* lengths for which the suffix follows (after one optional quote)
GroupLengths(s, st, suffix) ==
    {k \in 1..(RunEnd(s, st) - st) :
        OccursAt(s, suffix, IF IsQuote(s, st + k) THEN st + k + 1 ELSE st + k)}

\* NAME_ERROR_PATTERN: name ['\"]?([^'\"]+)['\"]? is not defined
\* where the group starts for a match tried at i
NameStart(s, i) == IF IsQuote(s, i + 5) THEN i + 6 ELSE i + 5

\* the longest group that starts at st and lets the rest match
NameGroup(s, st) ==
    Some(<<SubSeq(s, st, st + Max(GroupLengths(s, st, " is not defined")) - 1)>>)

NameMatchFrom(s, at) ==
    IF at = {} THEN None ELSE NameGroup(s, NameStart(s, Min(at)))

\* NAME_ERROR_PATTERN.search
NAME_ERROR_PATTERN(s) ==
    NameMatchFrom(s,
        {i \in 1..Len(s) :
            /\ OccursAt(s, "name ", i)
            /\ GroupLengths(s, NameStart(s, i), " is not defined") # {}})

\* ATTRIBUTE_ERROR_PATTERN:
\* ['\"]?([^'\"]+)['\"]? object has no attribute ['\"]?([^'\"]+)['\"]?
AttrMiddle == " object has no attribute "

AttrStart(s, i) == IF IsQuote(s, i) THEN i + 1 ELSE i

\* the index after the middle literal, the first group being k long from st
AttrAfter(s, st, k) ==
    (IF IsQuote(s, st + k) THEN st + k + 1 ELSE st + k) + Len(AttrMiddle)

\* the lengths of the first group for which the whole pattern matches at i
AttrLengths(s, i) ==
    {k \in GroupLengths(s, AttrStart(s, i), AttrMiddle) :
        GroupStart(s, AttrAfter(s, AttrStart(s, i), k)) # 0}

AttrGroups(s, st, k, g) ==
    Some(<<SubSeq(s, st, st + k - 1), SubSeq(s, g, RunEnd(s, g) - 1)>>)

AttrGroupsAt(s, st, k) == AttrGroups(s, st, k, GroupStart(s, AttrAfter(s, st, k)))

AttrMatchAt(s, i) == AttrGroupsAt(s, AttrStart(s, i), Max(AttrLengths(s, i)))

AttrMatchFrom(s, at) == IF at = {} THEN None ELSE AttrMatchAt(s, Min(at))

\* ATTRIBUTE_ERROR_PATTERN.search
ATTRIBUTE_ERROR_PATTERN(s) ==
    AttrMatchFrom(s, {i \in 1..Len(s) : AttrLengths(s, i) # {}})

\* the index after the longest run of digits that starts at d
DigitsEnd(s, d) ==
    CHOOSE j \in d..(Len(s) + 1) :
        /\ j = Len(s) + 1 \/ Ch(s, j) \notin Digits
        /\ \A k \in d..(j - 1) : Ch(s, k) \in Digits

\* TRACEBACK_LINE_PATTERN: File "([^"]+)", line (\d+)(?:, in ([^\n]+))?
\* the groups, the path lying in p..q-1 and the digits in d..e-1
FrameGroups(line, p, q, d, e) ==
    IF e = d THEN None
    ELSE Some(<<SubSeq(line, p, q - 1),
                SubSeq(line, d, e - 1),
                IF OccursAt(line, ", in ", e) /\ e + 5 <= Len(line)
                THEN Some(SubSeq(line, e + 5, Len(line)))
                ELSE None>>)

\* the match after File ", the path starting at p and the next " being at q
FramePath(line, p, q) ==
    IF q = 0 \/ q = p \/ ~OccursAt(line, "\", line ", q) THEN None
    ELSE FrameGroups(line, p, q, q + 8, DigitsEnd(line, q + 8))

\* the pattern tried at index i of a line
FrameMatchAt(line, i) ==
    IF ~OccursAt(line, "File \"", i) THEN None
    ELSE FramePath(line, i + 6, Find(line, "\"", i + 6))

FrameMatchFrom(line, at) == IF at = {} THEN None ELSE FrameMatchAt(line, Min(at))

\* TRACEBACK_LINE_PATTERN.search
TRACEBACK_LINE_PATTERN(line) ==
    FrameMatchFrom(line, {i \in 1..Len(line) : FrameMatchAt(line, i) # None})

-----------------------------------------------------------------------------
(* middleware/error_handler.py: ErrorHandler *)

\* the empty dict
EmptyDict == <<>>

\* dict.get(key): None when the key is absent
DictGetOptional(d, key) == IF key \in DOMAIN d THEN Some(d[key]) ELSE None

\* _extract_error_values, the branch of ModuleNotFoundError
ModuleValues(match) ==
    IF match # None
    THEN ("module" :> match[1][1])
         @@ ("package" :> get_correct_package_name(match[1][1]))
    ELSE EmptyDict

\* _extract_error_values, a branch that stores group 1 under one key
GroupValue(key, match) ==
    IF match # None THEN (key :> match[1][1]) ELSE EmptyDict

\* _extract_error_values, the branch of AttributeError
AttributeValues(match) ==
    IF match # None
    THEN ("type" :> match[1][1]) @@ ("attribute" :> match[1][2])
    ELSE EmptyDict

\* ErrorHandler._extract_error_values
extract_error_values(error_type, error_message) ==
    IF error_type = "ModuleNotFoundError"
    THEN ModuleValues(MODULE_NOT_FOUND_PATTERN(error_message))
    ELSE IF error_type = "ImportError"
    THEN GroupValue("name", IMPORT_ERROR_PATTERN(error_message))
    ELSE IF error_type = "NameError"
    THEN GroupValue("name", NAME_ERROR_PATTERN(error_message))
    ELSE IF error_type = "AttributeError"
    THEN AttributeValues(ATTRIBUTE_ERROR_PATTERN(error_message))
    ELSE IF error_type = "KeyError"
    THEN GroupValue("key", KEY_ERROR_PATTERN(error_message))
    ELSE IF error_type = "FileNotFoundError"
    THEN GroupValue("path", FILE_NOT_FOUND_PATTERN(error_message))
    ELSE EmptyDict

\* the greatest index of a set of indexes, 0 for the empty set
LastIndex(S) == IF S = {} THEN 0 ELSE Max(S)

\* variant: an indented line counts as well
TypedLineAnyIndent(lines) ==
    LastIndex({i \in 1..Len(lines) : Contains(lines[i], ": ")})

\* variant: the scan from the first line forward
TypedLineFirst(lines) ==
    LET typed == {i \in 1..Len(lines) :
                     Contains(lines[i], ": ") /\ ~StartsWith(lines[i], " ")}
    IN IF typed = {} THEN 0 ELSE Min(typed)

\* parse_traceback, the loop over reversed(lines): the index of the line it
\* breaks at, 0 when it runs to the end
TypedLine(lines) ==
    LastIndex({i \in 1..Len(lines) :
                  Contains(lines[i], ": ") /\ ~StartsWith(lines[i], " ")})

\* the assignments of that loop's body: <<error_type, error_message>>
TypeAndMessage(parts) ==
    <<Strip(parts[1]), IF Len(parts) > 1 THEN Strip(parts[2]) ELSE "">>

\* error_type and error_message after the loop that breaks at line t
TypedFields(lines, t) ==
    IF t = 0 THEN <<"UnknownError", "">>
    ELSE TypeAndMessage(SplitOnce(lines[t], ": "))

\* the location variables of parse_traceback before its second loop
InitialLocation ==
    [file_path |-> None, line_number |-> None, function_name |-> None,
     code_context |-> None]

\* variant: a frame sets only the location fields that are still None
FrameFieldsFirstWins(lines, i, loc, match, n) ==
    [file_path |-> IF loc.file_path = None THEN Some(match[1]) ELSE loc.file_path,
     line_number |-> IF loc.line_number = None THEN Some(n) ELSE loc.line_number,
     function_name |-> IF loc.function_name = None THEN match[3] ELSE loc.function_name,
     code_context |->
         IF i + 1 <= Len(lines) /\ StartsWith(lines[i + 1], "    ")
         THEN Some(Strip(lines[i + 1]))
         ELSE loc.code_context]

\* parse_traceback, the assignments under "if match" for line i (0-based i - 1),
\* given the match groups and the converted line number
FrameFields(lines, i, loc, match, n) ==
    [file_path |-> Some(match[1]),
     line_number |-> Some(n),
     function_name |-> match[3],
     code_context |->
         IF i + 1 <= Len(lines) /\ StartsWith(lines[i + 1], "    ")
         THEN Some(Strip(lines[i + 1]))
         ELSE loc.code_context]

\* the body of "if match" once int() has been called on group 2
FrameConverted(lines, i, loc, match, n) ==
    IF n.status = "raise" THEN n
    ELSE Return(FrameFields(lines, i, loc, match, n.value[1]))

\* variant: the code_context test sits outside "if match"
FrameMatchedContextAlways(lines, i, loc, match) ==
    IF match = None
    THEN Return([loc EXCEPT !.code_context =
                    IF i + 1 <= Len(lines) /\ StartsWith(lines[i + 1], "    ")
                    THEN Some(Strip(lines[i + 1]))
                    ELSE loc.code_context])
    ELSE FrameConverted(lines, i, loc, match[1], PyInt(match[1][2]))

\* one iteration of the loop over enumerate(lines), given the search result
FrameMatched(lines, i, loc, match) ==
    IF match = None THEN Return(loc)
    ELSE FrameConverted(lines, i, loc, match[1], PyInt(match[1][2]))

\* parse_traceback, one iteration of the loop over enumerate(lines)
FrameStep(lines, i, loc) ==
    FrameMatched(lines, i, loc, TRACEBACK_LINE_PATTERN(lines[i]))

\* parse_traceback, the loop over enumerate(lines) from line i on
RECURSIVE ScanFrames(_, _, _)
ScanNext(lines, i, step) ==
    IF step.status = "raise" THEN step
    ELSE ScanFrames(lines, i + 1, step.value[1])

ScanFrames(lines, i, loc) ==
    IF i > Len(lines) THEN Return(loc)
    ELSE ScanNext(lines, i, FrameStep(lines, i, loc))

\* the ParsedError dataclass
ParsedError(error_type, error_message, loc, extracted_values) ==
    [error_type |-> error_type,
     error_message |-> error_message,
     file_path |-> loc.file_path,
     line_number |-> loc.line_number,
     function_name |-> loc.function_name,
     code_context |-> loc.code_context,
     extracted_values |-> extracted_values]

\* parse_traceback from the call of _extract_error_values on, given
\* <<error_type, error_message>> and the outcome of the second loop
ParseResult(typed, scan) ==
    IF scan.status = "raise" THEN scan
    ELSE Return(ParsedError(typed[1], typed[2], scan.value[1],
                            extract_error_values(typed[1], typed[2])))

\* parse_traceback after lines has been assigned
ParseLines(lines) ==
    ParseResult(TypedFields(lines, TypedLine(lines)),
                ScanFrames(lines, 1, InitialLocation))

\* ErrorHandler.parse_traceback
parse_traceback(text) == ParseLines(Split(Strip(text), "\n"))

\* _generate_claude_tip: the location part of the generic tip
Location(p) ==
    IF /\ p.file_path # None /\ p.file_path # Some("")
       /\ p.line_number # None /\ p.line_number # Some(0)
    THEN " at " \o p.file_path[1] \o ":" \o IntToStr(p.line_number[1])
    ELSE ""

\* variant: the generic tip is the message alone
GenericTipMessageOnly(p) == Return(p.error_message)

\* _generate_claude_tip: the generic tip
GenericTip(p) == Return(p.error_type \o Location(p) \o ": " \o p.error_message)

\* _generate_claude_tip: the try block, given the outcome of format
TipFormatted(p, formatted) ==
    IF formatted.status = "return" THEN formatted
    ELSE IF formatted.exc = "KeyError" THEN GenericTip(p)
    ELSE formatted

\* ErrorHandler._generate_claude_tip
generate_claude_tip(p, fix) ==
    IF fix # None /\ fix[1].message_template # ""
    THEN TipFormatted(p, Format(fix[1].message_template, p.extracted_values))
    ELSE GenericTip(p)

\* _generate_claude_next: the try block, given the outcome of format
NextFormatted(template, formatted) ==
    IF formatted.status = "raise" /\ formatted.exc = "KeyError"
    THEN Return(template)
    ELSE formatted

\* _generate_claude_next: the branch of ModuleNotFoundError
NextForPackage(package) ==
    IF package # ""
    THEN Return("Install the missing package using: uv add " \o package)
    ELSE Return("Install the missing module using uv or pip.")

\* variant: the catalog's action_template comes before the branches by kind
generate_claude_next_catalog_first(p, fix) ==
    IF fix # None /\ fix[1].action_template # None /\ fix[1].action_template # Some("")
    THEN NextFormatted(fix[1].action_template[1],
                       Format(fix[1].action_template[1], p.extracted_values))
    ELSE IF p.error_type = "ModuleNotFoundError"
    THEN NextForPackage(DictGet(p.extracted_values, "package", ""))
    ELSE IF p.error_type = "NameError"
    THEN Return("Define '" \o DictGet(p.extracted_values, "name", "")
                \o "' before using it, or check for typos.")
    ELSE IF p.error_type = "FileNotFoundError"
    THEN Return("Verify the file path. Use os.getcwd() to check current directory.")
    ELSE Return("Review the error and fix the underlying issue.")

\* ErrorHandler._generate_claude_next
generate_claude_next(p, fix) ==
    IF p.error_type = "ModuleNotFoundError"
    THEN NextForPackage(DictGet(p.extracted_values, "package", ""))
    ELSE IF p.error_type = "NameError"
    THEN Return("Define '" \o DictGet(p.extracted_values, "name", "")
                \o "' before using it, or check for typos.")
    ELSE IF p.error_type = "FileNotFoundError"
    THEN Return("Verify the file path. Use os.getcwd() to check current directory.")
    ELSE IF fix # None /\ fix[1].action_template # None /\ fix[1].action_template # Some("")
    THEN NextFormatted(fix[1].action_template[1],
                       Format(fix[1].action_template[1], p.extracted_values))
    ELSE Return("Review the error and fix the underlying issue.")

\* _generate_action: the try block, given the outcome of format
ActionFormatted(formatted) ==
    IF formatted.status = "return" THEN Return(Some(formatted.value[1]))
    ELSE IF formatted.exc = "KeyError" THEN Return(None)
    ELSE formatted

\* variant: the install command names the module, not its package
generate_action_module_name(p, fix) ==
    IF p.error_type = "ModuleNotFoundError"
       /\ DictGet(p.extracted_values, "package", "") # ""
    THEN Return(Some("uv add " \o p.extracted_values["module"]))
    ELSE IF fix # None /\ fix[1].action_template # None /\ fix[1].action_template # Some("")
    THEN ActionFormatted(Format(fix[1].action_template[1], p.extracted_values))
    ELSE Return(None)

\* ErrorHandler._generate_action: Return(None) or Return(Some(action))
generate_action(p, fix) ==
    IF p.error_type = "ModuleNotFoundError"
       /\ DictGet(p.extracted_values, "package", "") # ""
    THEN Return(Some("uv add " \o p.extracted_values["package"]))
    ELSE IF fix # None /\ fix[1].action_template # None /\ fix[1].action_template # Some("")
    THEN ActionFormatted(Format(fix[1].action_template[1], p.extracted_values))
    ELSE Return(None)

\* the ErrorAnalysis dataclass
ErrorAnalysis(p, fix, claude_tip, claude_next, suggested_action) ==
    [parsed_error |-> p,
     fix_suggestion |-> fix,
     claude_tip |-> claude_tip,
     claude_next |-> claude_next,
     suggested_action |-> suggested_action]

\* analyze_error, the return statement, given the outcomes of the generators
AnalysisResult(p, fix, claude_tip, claude_next, suggested_action) ==
    IF claude_tip.status = "raise" THEN claude_tip
    ELSE IF claude_next.status = "raise" THEN claude_next
    ELSE IF suggested_action.status = "raise" THEN suggested_action
    ELSE Return(ErrorAnalysis(p, fix, claude_tip.value[1],
                              claude_next.value[1], suggested_action.value[1]))

\* analyze_error after fix_suggestion has been assigned
AnalyzeWithFix(p, fix) ==
    AnalysisResult(p, fix, generate_claude_tip(p, fix),
                   generate_claude_next(p, fix), generate_action(p, fix))

\* analyze_error after parse_traceback has been called
AnalyzeParsed(p) ==
    IF p.status = "raise" THEN p
    ELSE AnalyzeWithFix(p.value[1],
                        DictGetOptional(ERROR_FIX_MAP, p.value[1].error_type))

\* ErrorHandler.analyze_error
analyze_error(text) == AnalyzeParsed(parse_traceback(text))

-----------------------------------------------------------------------------
(* Response dicts. A dict value is tagged with its Python type:             *)
(* [t |-> "str", v |-> <string>], [t |-> "int", v |-> <integer>],           *)
(* [t |-> "dict", v |-> <record>].                                          *)

PyStr(s) == [t |-> "str", v |-> s]
PyNum(n) == [t |-> "int", v |-> n]
PyDict(d) == [t |-> "dict", v |-> d]

\* the result of an operation on the heap
HeapResult(h, result) == [heap |-> h, result |-> result]

\* variant: the same object instead of a copy
dict_alias(h, a) == [heap |-> h, ref |-> a]

\* variant: a new empty dict
dict_empty(h, a) == [heap |-> Append(h, EmptyDict), ref |-> Len(h) + 1]

\* dict(response): a new object holding the pairs of the object at a
dict_copy(h, a) == [heap |-> Append(h, h[a]), ref |-> Len(h) + 1]

\* d[key] = value on the object at a
SetItem(h, a, key, value) == [h EXCEPT ![a] = (key :> value) @@ h[a]]

\* variant: the key is written whether or not an action was derived
SetSuggestedActionAlways(h, a, suggested_action) ==
    SetItem(h, a, "suggested_action",
            PyStr(IF suggested_action = None THEN "" ELSE suggested_action[1]))

\* variant: the key is removed from the copy when no action was derived
SetSuggestedActionOrClear(h, a, suggested_action) ==
    IF suggested_action # None /\ suggested_action # Some("")
    THEN SetItem(h, a, "suggested_action", PyStr(suggested_action[1]))
    ELSE [h EXCEPT ![a] = [k \in DOMAIN h[a] \ {"suggested_action"} |-> h[a][k]]]

\* enrich_response, the test of analysis.suggested_action
SetSuggestedAction(h, a, suggested_action) ==
    IF suggested_action # None /\ suggested_action # Some("")
    THEN SetItem(h, a, "suggested_action", PyStr(suggested_action[1]))
    ELSE h

\* enrich_response, the assignments to the copy at a, in order
SetAnalysis(h, a, analysis_value) ==
    SetItem(
        SetSuggestedAction(
            SetItem(SetItem(h, a, "claude_tip", PyStr(analysis_value.claude_tip)),
                    a, "claude_next", PyStr(analysis_value.claude_next)),
            a, analysis_value.suggested_action),
        a, "error_details",
        PyDict([type |-> analysis_value.parsed_error.error_type,
                message |-> analysis_value.parsed_error.error_message,
                file |-> analysis_value.parsed_error.file_path,
                line |-> analysis_value.parsed_error.line_number,
                function |-> analysis_value.parsed_error.function_name]))

\* enrich_response once the copy has been made
EnrichCopy(enriched, analysis_value) ==
    HeapResult(SetAnalysis(enriched.heap, enriched.ref, analysis_value),
               Return(enriched.ref))

\* enrich_response after analyze_error has been called
EnrichAnalyzed(h, response, analyzed) ==
    IF analyzed.status = "raise" THEN HeapResult(h, analyzed)
    ELSE EnrichCopy(dict_copy(h, response), analyzed.value[1])

\* ErrorHandler.enrich_response
enrich_response(h, response, text) ==
    EnrichAnalyzed(h, response, analyze_error(text))

\* variant: only the names ending in "_df" are taken for dataframes
wrap_execution_success_suffix_only(h, response, output, namespace_vars) ==
    LET enriched == dict_copy(h, response)
        h1 == SetItem(enriched.heap, enriched.ref, "status", PyStr("success"))
        names == IF namespace_vars = None THEN <<>> ELSE namespace_vars[1]
        df_vars == SelectSeq(names, LAMBDA v : EndsWith(v, "_df"))
        tips == (IF output # None /\ output # Some("")
                 THEN <<"Code executed successfully with output.">>
                 ELSE <<"Code executed successfully (no output).">>)
                \o (IF df_vars # <<>>
                    THEN <<"DataFrames available: " \o Join(", ", df_vars)>>
                    ELSE <<>>)
                \o (IF Len(names) > 0
                    THEN <<"Namespace contains " \o IntToStr(Len(names)) \o " variable(s).">>
                    ELSE <<>>)
        next_steps == (IF df_vars # <<>>
                       THEN <<"Explore data with " \o df_vars[1] \o ".head() or "
                               \o df_vars[1] \o ".describe()">>
                       ELSE <<>>)
                      \o (IF Len(names) > 0
                          THEN <<"Use jupyter_inspect_namespace() to see all defined variables.">>
                          ELSE <<>>)
        h2 == SetItem(h1, enriched.ref, "claude_tip",
                      PyStr(IF tips # <<>> THEN Join(" ", tips) ELSE "Execution complete."))
        h3 == SetItem(h2, enriched.ref, "claude_next",
                      PyStr(IF next_steps # <<>> THEN Join(" ", next_steps)
                            ELSE "Continue with your analysis."))
    IN HeapResult(h3, Return(enriched.ref))

\* variant: the namespace is reported only next to a list of dataframes
wrap_execution_success_count_with_list(h, response, output, namespace_vars) ==
    LET enriched == dict_copy(h, response)
        h1 == SetItem(enriched.heap, enriched.ref, "status", PyStr("success"))
        names == IF namespace_vars = None THEN <<>> ELSE namespace_vars[1]
        df_vars == SelectSeq(names, LAMBDA v : EndsWith(v, "_df") \/ v = "df")
        tips == (IF output # None /\ output # Some("")
                 THEN <<"Code executed successfully with output.">>
                 ELSE <<"Code executed successfully (no output).">>)
                \o (IF df_vars # <<>>
                    THEN <<"DataFrames available: " \o Join(", ", df_vars),
                           "Namespace contains " \o IntToStr(Len(names)) \o " variable(s).">>
                    ELSE <<>>)
        next_steps == IF df_vars # <<>>
                      THEN <<"Explore data with " \o df_vars[1] \o ".head() or "
                              \o df_vars[1] \o ".describe()",
                             "Use jupyter_inspect_namespace() to see all defined variables.">>
                      ELSE <<>>
        h2 == SetItem(h1, enriched.ref, "claude_tip",
                      PyStr(IF tips # <<>> THEN Join(" ", tips) ELSE "Execution complete."))
        h3 == SetItem(h2, enriched.ref, "claude_next",
                      PyStr(IF next_steps # <<>> THEN Join(" ", next_steps)
                            ELSE "Continue with your analysis."))
    IN HeapResult(h3, Return(enriched.ref))

\* ResponseWrapper.wrap_execution_success
wrap_execution_success(h, response, output, namespace_vars) ==
    LET enriched == dict_copy(h, response)
        h1 == SetItem(enriched.heap, enriched.ref, "status", PyStr("success"))
        names == IF namespace_vars = None THEN <<>> ELSE namespace_vars[1]
        df_vars == SelectSeq(names, LAMBDA v : EndsWith(v, "_df") \/ v = "df")
        tips == (IF output # None /\ output # Some("")
                 THEN <<"Code executed successfully with output.">>
                 ELSE <<"Code executed successfully (no output).">>)
                \o (IF df_vars # <<>>
                    THEN <<"DataFrames available: " \o Join(", ", df_vars)>>
                    ELSE <<>>)
                \o (IF Len(names) > 0
                    THEN <<"Namespace contains " \o IntToStr(Len(names)) \o " variable(s).">>
                    ELSE <<>>)
        next_steps == (IF df_vars # <<>>
                       THEN <<"Explore data with " \o df_vars[1] \o ".head() or "
                               \o df_vars[1] \o ".describe()">>
                       ELSE <<>>)
                      \o (IF Len(names) > 0
                          THEN <<"Use jupyter_inspect_namespace() to see all defined variables.">>
                          ELSE <<>>)
        h2 == SetItem(h1, enriched.ref, "claude_tip",
                      PyStr(IF tips # <<>> THEN Join(" ", tips) ELSE "Execution complete."))
        h3 == SetItem(h2, enriched.ref, "claude_next",
                      PyStr(IF next_steps # <<>> THEN Join(" ", next_steps)
                            ELSE "Continue with your analysis."))
    IN HeapResult(h3, Return(enriched.ref))

\* variant: the status of the response is left as it was
wrap_execution_error_keep_status(h, response, text) == enrich_response(h, response, text)

\* ResponseWrapper.wrap_execution_error
wrap_execution_error(h, response, text) ==
    LET enriched == dict_copy(h, response)
        h1 == SetItem(enriched.heap, enriched.ref, "status", PyStr("error"))
    IN enrich_response(h1, enriched.ref, text)

\* ResponseWrapper.wrap_notebook_created
wrap_notebook_created(h, response, notebook_path, kernel_name) ==
    LET enriched == dict_copy(h, response)
        h1 == SetItem(enriched.heap, enriched.ref, "status", PyStr("success"))
        h2 == SetItem(h1, enriched.ref, "claude_tip",
                      PyStr("Notebook created at " \o notebook_path \o "."))
        h3 == IF kernel_name # None /\ kernel_name # Some("")
              THEN SetItem(h2, enriched.ref, "claude_tip",
                           PyStr(h2[enriched.ref]["claude_tip"].v
                                 \o " Using kernel: " \o kernel_name[1] \o "."))
              ELSE h2
        h4 == SetItem(h3, enriched.ref, "claude_next",
                      PyStr("Add cells with jupyter_add_cell() or execute code with jupyter_execute_cell()."))
    IN HeapResult(h4, Return(enriched.ref))

LowerCase == "abcdefghijklmnopqrstuvwxyz"
UpperCase == "ABCDEFGHIJKLMNOPQRSTUVWXYZ"

\* c.upper() and c.lower() for one character
Upper(c) == IF Contains(LowerCase, c) THEN Ch(UpperCase, Find(LowerCase, c, 1)) ELSE c
Lower(c) == IF Contains(UpperCase, c) THEN Ch(LowerCase, Find(UpperCase, c, 1)) ELSE c

RECURSIVE LowerAll(_)
LowerAll(s) == IF s = "" THEN "" ELSE Lower(Ch(s, 1)) \o LowerAll(SubSeq(s, 2, Len(s)))

\* s.capitalize()
Capitalize(s) == IF s = "" THEN "" ELSE Upper(Ch(s, 1)) \o LowerAll(SubSeq(s, 2, Len(s)))

\* ResponseWrapper.wrap_cell_added
wrap_cell_added(h, response, cell_type, cell_index) ==
    LET enriched == dict_copy(h, response)
        h1 == SetItem(enriched.heap, enriched.ref, "status", PyStr("success"))
        h2 == SetItem(h1, enriched.ref, "claude_tip",
                      PyStr(Capitalize(cell_type) \o " cell added at index "
                            \o IntToStr(cell_index) \o "."))
        h3 == SetItem(h2, enriched.ref, "claude_next",
                      PyStr(IF cell_type = "code"
                            THEN "Execute the cell with jupyter_execute_cell()."
                            ELSE "Add more cells or execute existing code cells."))
    IN HeapResult(h3, Return(enriched.ref))

\* variant: the execution count is appended when it is truthy
wrap_kernel_status_count_if_truthy(h, response, is_alive, execution_count) ==
    LET enriched == dict_copy(h, response)
        r == enriched.ref
        h1 == SetItem(enriched.heap, r, "status", PyStr("running"))
        h2 == SetItem(h1, r, "claude_tip", PyStr("Kernel is running and ready for execution."))
        h3 == IF execution_count # None /\ execution_count # Some(0)
              THEN SetItem(h2, r, "claude_tip",
                           PyStr(h2[r]["claude_tip"].v \o " Execution count: "
                                 \o IntToStr(execution_count[1]) \o "."))
              ELSE h2
        h4 == SetItem(h3, r, "claude_next", PyStr("Execute code with jupyter_execute_cell()."))
        g1 == SetItem(enriched.heap, r, "status", PyStr("stopped"))
        g2 == SetItem(g1, r, "claude_tip", PyStr("Kernel is not running."))
        g3 == SetItem(g2, r, "claude_next", PyStr("Start the kernel or create a new notebook."))
    IN HeapResult(IF is_alive THEN h4 ELSE g3, Return(r))

\* ResponseWrapper.wrap_kernel_status
wrap_kernel_status(h, response, is_alive, execution_count) ==
    LET enriched == dict_copy(h, response)
        r == enriched.ref
        h1 == SetItem(enriched.heap, r, "status", PyStr("running"))
        h2 == SetItem(h1, r, "claude_tip", PyStr("Kernel is running and ready for execution."))
        h3 == IF execution_count # None
              THEN SetItem(h2, r, "claude_tip",
                           PyStr(h2[r]["claude_tip"].v \o " Execution count: "
                                 \o IntToStr(execution_count[1]) \o "."))
              ELSE h2
        h4 == SetItem(h3, r, "claude_next", PyStr("Execute code with jupyter_execute_cell()."))
        g1 == SetItem(enriched.heap, r, "status", PyStr("stopped"))
        g2 == SetItem(g1, r, "claude_tip", PyStr("Kernel is not running."))
        g3 == SetItem(g2, r, "claude_next", PyStr("Start the kernel or create a new notebook."))
    IN HeapResult(IF is_alive THEN h4 ELSE g3, Return(r))

\* ResponseWrapper.wrap_generic_success
wrap_generic_success(h, response, operation, details) ==
    LET enriched == dict_copy(h, response)
        r == enriched.ref
        h1 == SetItem(enriched.heap, r, "status", PyStr("success"))
        h2 == SetItem(h1, r, "claude_tip", PyStr(operation \o " completed successfully."))
        h3 == IF details # None /\ details # Some("")
              THEN SetItem(h2, r, "claude_tip", PyStr(h2[r]["claude_tip"].v \o " " \o details[1]))
              ELSE h2
        h4 == SetItem(h3, r, "claude_next", PyStr("Continue with your workflow."))
    IN HeapResult(h4, Return(r))

-----------------------------------------------------------------------------
(* The resolver alone: one import name, one call. *)

RootNames == DOMAIN PackageNameMapLiteral \cup {"numpy", "requests", "google", "unknown_module", ""}

Components == {"ensemble", "cloud", ""}

RECURSIVE Dotted(_)
\* the names made of a root and at most n further components
Dotted(n) ==
    IF n = 0 THEN RootNames
    ELSE LET shorter == Dotted(n - 1)
         IN shorter \cup {s \o "." \o c : s \in shorter, c \in Components}

ImportNames == Dotted(MaxSubmodules)

InitResolver ==
    /\ PACKAGE_NAME_MAP = PackageNameMapLiteral
    /\ ERROR_FIX_MAP = ErrorFixMapLiteral
    /\ import_name \in ImportNames
    /\ package_name = NotCalled
    /\ traceback_text = ""
    /\ parsed = NotCalled
    /\ analysis = NotCalled
    /\ heap = <<>>
    /\ call = <<>>
    /\ ret = NotCalled

GetCorrectPackageName ==
    /\ package_name = NotCalled
    /\ package_name' = Return(get_correct_package_name(import_name))
    /\ UNCHANGED <<PACKAGE_NAME_MAP, ERROR_FIX_MAP, import_name, traceback_text,
                   parsed, analysis, heap, call, ret>>

NextResolver == GetCorrectPackageName

SpecResolver == InitResolver /\ [][NextResolver]_vars

-----------------------------------------------------------------------------
(* The parser and the analyzer: one traceback text, parsed and analyzed. *)

\* the sequences over S of length at most n
SeqsUpTo(S, n) == UNION {[1..k -> S] : k \in 0..n}

RECURSIVE Repeat(_, _)
\* s * n
Repeat(s, n) ==
    IF n = 0 THEN ""
    ELSE IF n % 2 = 0 THEN LET half == Repeat(s, n \div 2) IN half \o half
    ELSE s \o Repeat(s, n - 1)

\* a frame line whose line number has one digit more than int() converts
LongFrame == "  File \"big.py\", line " \o Repeat("1", IntMaxStrDigits + 1)

\* lines a text may hold before its last line
PrefixLines ==
    {"Traceback (most recent call last):",
     "  File \"test.py\", line 1, in <module>",
     "  File \"lib.py\", line 20",
     "File \"x\", line 0, in f",
     "    import cv2",
     "ValueError: invalid literal",
     "  Note: indented"}

\* last lines of a text
TailLines ==
    {"ModuleNotFoundError: No module named 'cv2'",
     "ModuleNotFoundError: No module named 'sklearn.ensemble'",
     "ModuleNotFoundError: No module named numpy",
     "ModuleNotFoundError: import failed",
     "ImportError: cannot import name 'nonexistent' from 'sklearn'",
     "ImportError: DLL load failed",
     "NameError: name 'x' is not defined",
     "NameError: free variable referenced",
     "AttributeError: 'str' object has no attribute 'nonexistent_method'",
     "AttributeError: type object 'A' has no attribute 'b'",
     "KeyError: 'missing_key'",
     "KeyError: ''",
     "KeyError: 5",
     "FileNotFoundError: [Errno 2] No such file or directory: 'missing.txt'",
     "FileNotFoundError: No such file or directory: 'missing.txt'",
     "PermissionError: [Errno 13] Permission denied: 'missing.txt'",
     "ValueError: bad value: expected: int",
     "ValueError: invalid literal",
     "ZeroDivisionError: division by zero",
     "CustomError: oops",
     "E :  spaced ",
     ": y",
     "\tTabbed: line",
     "KeyboardInterrupt",
     "  File \"test.py\", line 7, in g",
     "    raise ValueError: x",
     ""}

\* texts with a line number too long for int()
LongTexts ==
    {LongFrame,
     Join("\n", <<"Traceback (most recent call last):", LongFrame, "    import cv2",
                  "ModuleNotFoundError: No module named 'cv2'">>)}

\* the minimal traces of the tests: a catalog kind and a message, no frame
MinimalTexts == {k \o ": message" : k \in DOMAIN ErrorFixMapLiteral}

Texts ==
    {Join("\n", prefix \o <<tail>>) : prefix \in SeqsUpTo(PrefixLines, MaxPrefix),
                                      tail \in TailLines}
    \cup MinimalTexts \cup LongTexts

InitParse ==
    /\ PACKAGE_NAME_MAP = PackageNameMapLiteral
    /\ ERROR_FIX_MAP = ErrorFixMapLiteral
    /\ import_name = ""
    /\ package_name = NotCalled
    /\ traceback_text \in Texts
    /\ parsed = NotCalled
    /\ analysis = NotCalled
    /\ heap = <<>>
    /\ call = <<>>
    /\ ret = NotCalled

ParseTraceback ==
    /\ parsed = NotCalled
    /\ parsed' = parse_traceback(traceback_text)
    /\ UNCHANGED <<PACKAGE_NAME_MAP, ERROR_FIX_MAP, import_name, package_name,
                   traceback_text, analysis, heap, call, ret>>

AnalyzeError ==
    /\ analysis = NotCalled
    /\ analysis' = analyze_error(traceback_text)
    /\ UNCHANGED <<PACKAGE_NAME_MAP, ERROR_FIX_MAP, import_name, package_name,
                   traceback_text, parsed, heap, call, ret>>

NextParse == ParseTraceback \/ AnalyzeError

SpecParse == InitParse /\ [][NextParse]_vars

-----------------------------------------------------------------------------
(* The response wrappers: a caller holds a response dict and passes it, or   *)
(* the dict a previous call returned, to one enrichment entry point after    *)
(* another.                                                                  *)

\* responses a caller supplies
Responses ==
    {EmptyDict,
     ("partial_output" :> PyStr("Some data was processed before error")),
     ("original_key" :> PyStr("original_value")) @@ ("status" :> PyStr("failed")),
     ("output" :> PyStr("ok")) @@ ("count" :> PyNum(3))
        @@ ("claude_tip" :> PyStr("old tip")) @@ ("claude_next" :> PyStr("old next"))
        @@ ("suggested_action" :> PyStr("pip install x"))
        @@ ("error_details" :> PyStr("none"))}

\* traceback texts passed to the error path
EnrichTexts ==
    {Join("\n", <<"Traceback (most recent call last):",
                  "  File \"test.py\", line 1, in <module>",
                  "    import cv2",
                  "ModuleNotFoundError: No module named 'cv2'">>),
     "ValueError: bad value",
     "CustomError: oops"}

Outputs == {None, Some("Plot generated")}
NamespaceVars == {None, Some(<<"df", "x">>)}
KernelNames == {None, Some("python3")}
CellAdds == {<<"code", 0>>, <<"markdown", 1>>}
KernelStates == {<<TRUE, Some(0)>>, <<TRUE, None>>, <<FALSE, Some(3)>>}
Details == {None, Some("2 cells removed.")}

NoCall == [op |-> "none", response |-> 0, before |-> EmptyDict, args |-> <<>>, n |-> 0]

Init ==
    /\ PACKAGE_NAME_MAP = PackageNameMapLiteral
    /\ ERROR_FIX_MAP = ErrorFixMapLiteral
    /\ import_name = ""
    /\ package_name = NotCalled
    /\ traceback_text = ""
    /\ parsed = NotCalled
    /\ analysis = NotCalled
    /\ heap \in {<<r>> : r \in Responses}
    /\ call = NoCall
    /\ ret = NotCalled

\* the dicts the caller can pass: its own response and the last one returned
Targets == {1} \cup (IF ret.status = "return" THEN {ret.value[1]} ELSE {})

\* the caller calls entry point op on the dict at a; res is what the call does
Called(op, a, args, res) ==
    /\ call.n < MaxCalls
    /\ heap' = res.heap
    /\ ret' = res.result
    /\ call' = [op |-> op, response |-> a, before |-> heap[a], args |-> args,
                n |-> call.n + 1]
    /\ UNCHANGED <<PACKAGE_NAME_MAP, ERROR_FIX_MAP, import_name, package_name,
                   traceback_text, parsed, analysis>>

\* variant: enrich_response records a kind it has no entry for in ERROR_FIX_MAP
EnrichResponseLearning ==
    \E a \in Targets, text \in EnrichTexts :
        LET res == enrich_response(heap, a, text)
            kind == parse_traceback(text).value[1].error_type
        IN /\ call.n < MaxCalls
           /\ heap' = res.heap
           /\ ret' = res.result
           /\ call' = [op |-> "enrich_response", response |-> a, before |-> heap[a],
                       args |-> <<text>>, n |-> call.n + 1]
           /\ ERROR_FIX_MAP' = IF kind \in DOMAIN ERROR_FIX_MAP THEN ERROR_FIX_MAP
                               ELSE (kind :> FixSuggestion("Seen before.", None))
                                    @@ ERROR_FIX_MAP
           /\ UNCHANGED <<PACKAGE_NAME_MAP, import_name, package_name,
                          traceback_text, parsed, analysis>>

EnrichResponse ==
    \E a \in Targets, text \in EnrichTexts :
        Called("enrich_response", a, <<text>>, enrich_response(heap, a, text))

WrapExecutionSuccess ==
    \E a \in Targets, output \in Outputs, namespace_vars \in NamespaceVars :
        Called("wrap_execution_success", a, <<output, namespace_vars>>,
               wrap_execution_success(heap, a, output, namespace_vars))

WrapExecutionError ==
    \E a \in Targets, text \in EnrichTexts :
        Called("wrap_execution_error", a, <<text>>, wrap_execution_error(heap, a, text))

WrapNotebookCreated ==
    \E a \in Targets, kernel_name \in KernelNames :
        Called("wrap_notebook_created", a, <<"analysis.ipynb", kernel_name>>,
               wrap_notebook_created(heap, a, "analysis.ipynb", kernel_name))

WrapCellAdded ==
    \E a \in Targets, c \in CellAdds :
        Called("wrap_cell_added", a, c, wrap_cell_added(heap, a, c[1], c[2]))

WrapKernelStatus ==
    \E a \in Targets, k \in KernelStates :
        Called("wrap_kernel_status", a, k, wrap_kernel_status(heap, a, k[1], k[2]))

WrapGenericSuccess ==
    \E a \in Targets, details \in Details :
        Called("wrap_generic_success", a, <<"Cell deletion", details>>,
               wrap_generic_success(heap, a, "Cell deletion", details))

Next ==
    \/ EnrichResponse
    \/ WrapExecutionSuccess
    \/ WrapExecutionError
    \/ WrapNotebookCreated
    \/ WrapCellAdded
    \/ WrapKernelStatus
    \/ WrapGenericSuccess

Spec == Init /\ [][Next]_vars

-----------------------------------------------------------------------------
(* One call of wrap_execution_success, over more outputs and namespaces. *)

\* variable names of a kernel namespace
VariableNames == {"df", "sales_df", "x", "pdf", "df2"}

SuccessOutputs == {None, Some(""), Some("Plot generated")}

SuccessNamespaces == {None} \cup {Some(names) : names \in SeqsUpTo(VariableNames, MaxNames)}

WrapExecutionSuccessOnce ==
    \E output \in SuccessOutputs, namespace_vars \in SuccessNamespaces :
        /\ call = NoCall
        /\ Called("wrap_execution_success", 1, <<output, namespace_vars>>,
                  wrap_execution_success(heap, 1, output, namespace_vars))

NextSuccess == WrapExecutionSuccessOnce

SpecSuccess == Init /\ [][NextSuccess]_vars

-----------------------------------------------------------------------------
(* The package-name resolver, checked under SpecResolver. *)

\* the part of s before its first '.', all of s when it has none
LeadingComponent(s) ==
    IF \E i \in 1..Len(s) : Ch(s, i) = "."
    THEN SubSeq(s, 1, (CHOOSE i \in 1..Len(s) :
                          Ch(s, i) = "." /\ \A j \in 1..(i - 1) : Ch(s, j) # ".") - 1)
    ELSE s

\* C10: get_correct_package_name(s) returns PACKAGE_NAME_MAP[leading component
\* of s] when the part of s before its first '.' is a key of the map, and the
\* full s unchanged otherwise.
C10_LeadingComponentOrSelf ==
    package_name.status # "none" =>
        package_name =
            Return(IF LeadingComponent(import_name) \in DOMAIN PACKAGE_NAME_MAP
                   THEN PACKAGE_NAME_MAP[LeadingComponent(import_name)]
                   ELSE import_name)

\* an unmapped dotted name has been resolved to itself, dots and all
C10_Witness ==
    /\ import_name = "numpy.ensemble.cloud"
    /\ package_name = Return("numpy.ensemble.cloud")

-----------------------------------------------------------------------------
\* C11 as stated: for every string s, the empty string and strings made only
\* of dots included, get_correct_package_name(s) returns a non-empty string
\* and never raises.
C11_AlwaysNonEmpty ==
    package_name.status # "none" =>
        /\ package_name.status = "return"
        /\ package_name.value[1] # ""

\* C11: for every string s, get_correct_package_name(s) never raises; it
\* returns a non-empty string when s is non-empty, strings made only of dots
\* included, and the empty string when s is the empty string.
C11_NonEmptyUnlessEmptyInput ==
    package_name.status # "none" =>
        /\ package_name.status = "return"
        /\ import_name # "" => package_name.value[1] # ""
        /\ import_name = "" => package_name.value[1] = ""

\* a name made only of dots has been resolved, to itself
C11_Witness ==
    /\ import_name = "."
    /\ package_name = Return(".")

-----------------------------------------------------------------------------
(* The enrichment entry points, checked under Spec. *)

\* the dict the last call returned
Returned == heap[ret.value[1]]

\* pair k of the dict passed to the last call is in the returned dict
Preserved(k) == k \in DOMAIN Returned /\ Returned[k] = call.before[k]

\* the analysis of a trace derives an action
DerivesAction(text) ==
    analyze_error(text).value[1].suggested_action \notin {None, Some("")}

\* the keys the last call's entry point assigns in the copy it returns
AssignedKeys ==
    (IF call.op \in {"enrich_response", "wrap_execution_error"}
     THEN {"claude_tip", "claude_next", "error_details"}
          \cup (IF DerivesAction(call.args[1]) THEN {"suggested_action"} ELSE {})
     ELSE {})
    \cup (IF call.op # "enrich_response" THEN {"status", "claude_tip", "claude_next"}
          ELSE {})

\* C1 as stated: every key/value pair of the response passed to an enrichment
\* entry point is present with an equal value in the returned map, the keys
\* status, claude_tip, claude_next, suggested_action and error_details included.
C1_AllPairsPreserved ==
    (call.op # "none" /\ ret.status = "return") =>
        \A k \in DOMAIN call.before : Preserved(k)

\* C1 amended: every key/value pair of the response whose key the entry point
\* does not assign is present with an equal value in the returned map. The
\* wrap_* methods assign status, claude_tip and claude_next; enrich_response
\* assigns claude_tip, claude_next, error_details and, when the analysis
\* derives an action, suggested_action; wrap_execution_error assigns both sets.
C1_UnassignedPairsPreserved ==
    (call.op # "none" /\ ret.status = "return") =>
        LET assigned == AssignedKeys
        IN \A k \in DOMAIN call.before : k \notin assigned => Preserved(k)

\* wrap_execution_error has returned a map that keeps the caller's
\* original_key and carries its own status in place of the caller's
C1_Witness ==
    /\ call.op = "wrap_execution_error"
    /\ ret.status = "return"
    /\ "original_key" \in DOMAIN call.before
    /\ Preserved("original_key")
    /\ call.before["status"] = PyStr("failed")
    /\ Returned["status"] = PyStr("error")

\* C2: a step of any enrichment entry point leaves every dict that existed
\* before it, the one passed in among them, with the keys and values it had,
\* and the dict it returns is a new object.
C2_NoMutationFreshResult ==
    [][/\ \A a \in DOMAIN heap : heap'[a] = heap[a]
       /\ ret'.status = "return" => ret'.value[1] \notin DOMAIN heap]_vars

\* a second call has been made on the result of a first, its argument still
\* as passed and its result a different dict with other contents
C2_Witness ==
    /\ call.n = 2
    /\ call.response # 1
    /\ ret.status = "return"
    /\ ret.value[1] # call.response
    /\ heap[call.response] = call.before
    /\ Returned # call.before

-----------------------------------------------------------------------------
(* The traceback parser, checked under SpecParse. *)

\* the lines of the trimmed text
TextLines == Split(Strip(traceback_text), "\n")

\* the ParsedError that parse_traceback returned
Parsed == parsed.value[1]

\* line has ": " at index i
SeparatorAt(line, i) == i >= 1 /\ i < Len(line) /\ SubSeq(line, i, i + 1) = ": "

\* a typed line: not indented, and ": " somewhere in it
IsTyped(line) ==
    /\ \E i \in 1..Len(line) : SeparatorAt(line, i)
    /\ Ch(line, 1) # " "

\* the indexes of the typed lines among lines
TypedLines(lines) == {i \in 1..Len(lines) : IsTyped(lines[i])}

\* the last of the lines whose index is in S
LastOf(lines, S) == lines[CHOOSE i \in S : \A j \in S : j <= i]

\* the index of the first ": " of a line that has one
FirstSeparator(line) ==
    CHOOSE i \in 1..Len(line) :
        SeparatorAt(line, i) /\ \A j \in 1..(i - 1) : ~SeparatorAt(line, j)

\* the kind and the message of a typed line: the parts before and after its
\* first ": ", each without surrounding whitespace
KindAndMessage(line) ==
    LET sep == FirstSeparator(line)
    IN <<Strip(SubSeq(line, 1, sep - 1)), Strip(SubSeq(line, sep + 2, Len(line)))>>

\* C3: parse_traceback and analyze_error, and with them enrich_response and
\* wrap_execution_error, return for every input string and never raise.
C3_NeverRaises == parsed.status # "raise" /\ analysis.status # "raise"

\* C4: the error_type parse_traceback returns is a non-empty string, and it is
\* "UnknownError" whenever the text has no typed line.
C4_ErrorTypeNonEmpty ==
    parsed.status = "return" =>
        /\ Parsed.error_type # ""
        /\ TypedLines(TextLines) = {} => Parsed.error_type = "UnknownError"

\* C5: error_type and error_message come from the last line of the text that
\* is not indented and contains ": ", split once at its first ": " (each part
\* trimmed, later ": " staying in the message); parsing "<k>: message" for a
\* kind k of ERROR_FIX_MAP yields error_type k.
C5_LastTypedLineSplitOnce ==
    parsed.status = "return" =>
        LET lines == TextLines
            typed == TypedLines(lines)
        IN /\ typed # {} =>
                  <<Parsed.error_type, Parsed.error_message>>
                      = KindAndMessage(LastOf(lines, typed))
           /\ \A k \in DOMAIN ERROR_FIX_MAP :
                  traceback_text = k \o ": message" => Parsed.error_type = k

\* a text of two typed lines has been parsed: the kind and the message are the
\* second line's, the message keeping its later ": "
C5_Witness ==
    /\ traceback_text = "ValueError: invalid literal\nValueError: bad value: expected: int"
    /\ parsed.status = "return"
    /\ Parsed.error_type = "ValueError"
    /\ Parsed.error_message = "bad value: expected: int"

\* C6 as stated: a text with no unindented line containing ": " parses to
\* error_type "UnknownError" and error_message equal to the whole trimmed text.
C6_MessageIsTrimmedText ==
    (parsed.status = "return" /\ TypedLines(TextLines) = {}) =>
        /\ Parsed.error_type = "UnknownError"
        /\ Parsed.error_message = Strip(traceback_text)

\* C6 amended: a text with no unindented line containing ": " parses to
\* error_type "UnknownError" and to the empty error_message.
C6_MessageIsEmpty ==
    (parsed.status = "return" /\ TypedLines(TextLines) = {}) =>
        /\ Parsed.error_type = "UnknownError"
        /\ Parsed.error_message = ""

\* a bare KeyboardInterrupt line has been parsed
C6_Witness ==
    /\ traceback_text = "KeyboardInterrupt"
    /\ parsed.status = "return"
    /\ Parsed.error_type = "UnknownError"
    /\ Parsed.error_message = ""

\* a line holds a frame location: File "<path>", line <N>, the path at least
\* one character other than a double quote and N at least one digit
HasFrame(line) ==
    \E i \in 1..Len(line) :
        /\ OccursAt(line, "File \"", i)
        /\ \E j \in (i + 7)..Len(line) :
               /\ \A k \in (i + 6)..(j - 1) : Ch(line, k) # "\""
               /\ OccursAt(line, "\", line ", j)
               /\ j + 8 <= Len(line)
               /\ Ch(line, j + 8) \in Digits

\* the indexes of the lines that hold a frame location
FrameLines(lines) == {i \in 1..Len(lines) : HasFrame(lines[i])}

\* C7: when lines of the text match the frame-location pattern, file_path,
\* line_number and function_name are the path, the number and the function of
\* the last matching line; function_name is None when that line has no
\* ", in <function>" part.
C7_LastFrameWins ==
    parsed.status = "return" =>
        LET lines == TextLines
            frames == FrameLines(lines)
        IN frames # {} =>
               LET line == LastOf(lines, frames)
                   groups == TRACEBACK_LINE_PATTERN(line)[1]
               IN /\ Parsed.file_path = Some(groups[1])
                  /\ Parsed.line_number = Some(StrToNat(groups[2]))
                  /\ Parsed.function_name = groups[3]
                  /\ ~Contains(line, ", in ") => Parsed.function_name = None

\* a text of two frames has been parsed, the first with a function and the
\* second without: the location is the second frame's, with no function
C7_Witness ==
    /\ traceback_text = Join("\n", <<"  File \"test.py\", line 1, in <module>",
                                     "  File \"lib.py\", line 20",
                                     "ZeroDivisionError: division by zero">>)
    /\ parsed.status = "return"
    /\ Parsed.file_path = Some("lib.py")
    /\ Parsed.line_number = Some(20)
    /\ Parsed.function_name = None

\* C8: when no line of the text matches the frame-location pattern, file_path,
\* line_number, function_name and code_context are all None, while error_type
\* and error_message are those of the typed line; "ValueError: invalid
\* literal" gives the message "invalid literal" and no location.
C8_NoFrameNoLocation ==
    parsed.status = "return" =>
        LET lines == TextLines
            typed == TypedLines(lines)
        IN FrameLines(lines) = {} =>
               /\ Parsed.file_path = None
               /\ Parsed.line_number = None
               /\ Parsed.function_name = None
               /\ Parsed.code_context = None
               /\ typed # {} =>
                      /\ Parsed.error_type = KindAndMessage(LastOf(lines, typed))[1]
                      /\ Parsed.error_message = KindAndMessage(LastOf(lines, typed))[2]
               /\ traceback_text = "ValueError: invalid literal" =>
                      /\ Parsed.error_type = "ValueError"
                      /\ Parsed.error_message = "invalid literal"

\* a text without frames, an indented code line in it, has been parsed: the
\* kind and the message are there, the location and the code context are not
C8_Witness ==
    /\ traceback_text = Join("\n", <<"Traceback (most recent call last):",
                                     "    import cv2",
                                     "ValueError: invalid literal">>)
    /\ parsed.status = "return"
    /\ Parsed.error_type = "ValueError"
    /\ Parsed.error_message = "invalid literal"
    /\ Parsed.file_path = None
    /\ Parsed.code_context = None

\* the token msg quotes with ' from index at on, when it is not empty and has
\* no quote character in it; None otherwise
QuotedToken(msg, at) ==
    IF at >= 1 /\ at < Len(msg) /\ Ch(msg, at) = "'"
    THEN LET close == Find(msg, "'", at + 1)
         IN IF close > at + 1 /\ \A k \in (at + 1)..(close - 1) : Ch(msg, k) # "\""
            THEN Some(SubSeq(msg, at + 1, close - 1))
            ELSE None
    ELSE None

\* the quoted token right after the first occurrence of literal in msg
TokenAfter(msg, literal) ==
    LET i == Find(msg, literal, 1)
    IN IF i = 0 THEN None ELSE QuotedToken(msg, i + Len(literal))

\* a message of a documented form "... <literal>'<token>' ..." yields the
\* token under the key; a message without the literal yields nothing
OneToken(msg, literal, key) ==
    LET token == TokenAfter(msg, literal)
    IN IF token # None THEN Some(key :> token[1])
       ELSE IF ~Contains(msg, literal) THEN Some(EmptyDict)
       ELSE None

\* what the extraction rules document for a kind and a message: Some(values)
\* for a message of the documented form and for one that has no part of it,
\* None for any other message. file_form is the text that precedes the quoted
\* path in the form documented for FileNotFoundError.
Documented(kind, msg, file_form) ==
    CASE kind = "ModuleNotFoundError" ->
             LET token == TokenAfter(msg, "No module named ")
             IN IF token # None
                THEN Some(("module" :> token[1])
                          @@ ("package" :> get_correct_package_name(token[1])))
                ELSE IF ~Contains(msg, "No module named ") THEN Some(EmptyDict)
                ELSE None
      [] kind = "ImportError" -> OneToken(msg, "cannot import name ", "name")
      [] kind = "NameError" ->
             LET token == TokenAfter(msg, "name ")
             IN IF token # None
                   /\ OccursAt(msg, "' is not defined",
                               Find(msg, "name ", 1) + 6 + Len(token[1]))
                THEN Some("name" :> token[1])
                ELSE IF ~Contains(msg, " is not defined") THEN Some(EmptyDict)
                ELSE None
      [] kind = "AttributeError" ->
             LET type == QuotedToken(msg, 1)
                 attribute == TokenAfter(msg, " object has no attribute ")
             IN IF type # None /\ attribute # None
                   /\ OccursAt(msg, "' object has no attribute ", Len(type[1]) + 2)
                THEN Some(("type" :> type[1]) @@ ("attribute" :> attribute[1]))
                ELSE IF ~Contains(msg, " object has no attribute ") THEN Some(EmptyDict)
                ELSE None
      [] kind = "KeyError" ->
             IF QuotedToken(msg, 1) # None THEN Some("key" :> QuotedToken(msg, 1)[1])
             ELSE IF \A i \in 1..Len(msg) : Ch(msg, i) \in Quotes THEN Some(EmptyDict)
             ELSE IF \A i \in 1..Len(msg) : Ch(msg, i) \notin Quotes THEN Some("key" :> msg)
             ELSE None
      [] kind = "FileNotFoundError" -> OneToken(msg, file_form, "path")
      [] OTHER -> Some(EmptyDict)

\* extracted_values is what the rules document, the form of FileNotFoundError
\* being file_form followed by the quoted path
ExtractsAsDocumented(file_form) ==
    parsed.status = "return" =>
        LET documented == Documented(Parsed.error_type, Parsed.error_message, file_form)
        IN documented # None => Parsed.extracted_values = documented[1]

\* C9 as stated: for a kind with an extraction rule a message of the
\* documented form yields exactly the documented keys with the quoted
\* substrings (package being get_correct_package_name(module)), a message
\* that does not match leaves the keys absent, any other kind yields no
\* values; the documented form of FileNotFoundError is
\* No such file or directory: '<path>'.
C9_ExtractionAsDocumented == ExtractsAsDocumented("No such file or directory: ")

\* C9 amended: the same, the form of FileNotFoundError being
\* [Errno 2] No such file or directory: '<path>'; a FileNotFoundError message
\* without the "[Errno 2] " prefix yields no path. The quoted substrings are
\* not empty and hold no quote character.
C9_ExtractionWithErrno == ExtractsAsDocumented("[Errno 2] No such file or directory: ")

\* a FileNotFoundError message with its errno prefix has been parsed and the
\* path extracted
C9_Witness ==
    /\ traceback_text
           = "FileNotFoundError: [Errno 2] No such file or directory: 'missing.txt'"
    /\ parsed.status = "return"
    /\ Parsed.extracted_values = ("path" :> "missing.txt")

-----------------------------------------------------------------------------
(* The error analyzer, checked under SpecParse. *)

\* the ErrorAnalysis that analyze_error returned
Analysis == analysis.value[1]

\* the placeholder names of a template: the texts between a '{' and the next '}'
Placeholders(template) ==
    {SubSeq(template, i + 1, Find(template, "}", i) - 1) :
        i \in {k \in 1..Len(template) : Ch(template, k) = "{"}}

\* a template with every placeholder replaced by its value
RECURSIVE Substituted(_, _)
Substituted(template, values) ==
    LET open == Find(template, "{", 1)
        close == Find(template, "}", open)
    IN IF open = 0 THEN template
       ELSE SubSeq(template, 1, open - 1)
            \o values[SubSeq(template, open + 1, close - 1)]
            \o Substituted(SubSeq(template, close + 1, Len(template)), values)

\* the generic rendering "<kind> at <file>:<line>: <message>", with or without
\* its location part
Generic(p, located) ==
    p.error_type
    \o (IF located THEN " at " \o p.file_path[1] \o ":" \o IntToStr(p.line_number[1]) ELSE "")
    \o ": " \o p.error_message

\* C12: the claude_tip of an analysis is the catalog's message_template with
\* its placeholders replaced when ERROR_FIX_MAP has an entry for the parsed
\* kind and every placeholder of the template is a key of extracted_values;
\* when a placeholder is missing or the kind has no entry it is the generic
\* "<kind> at <file>:<line>: <message>", the location part being there when a
\* frame was found.  A failed interpolation is never propagated.
C12_TipTemplateOrGeneric ==
    /\ analysis.status = "raise" => analysis.exc # "KeyError"
    /\ analysis.status = "return" =>
        LET p == Analysis.parsed_error
        IN IF /\ p.error_type \in DOMAIN ERROR_FIX_MAP
              /\ Placeholders(ERROR_FIX_MAP[p.error_type].message_template)
                     \subseteq DOMAIN p.extracted_values
           THEN Analysis.claude_tip =
                    Substituted(ERROR_FIX_MAP[p.error_type].message_template,
                                p.extracted_values)
           ELSE Analysis.claude_tip = Generic(p, p.file_path # None)

\* C13: for every input text, the ErrorAnalysis that analyze_error returns has
\* a non-empty claude_tip and a non-empty claude_next.
C13_TipAndNextNonEmpty ==
    analysis.status = "return" =>
        /\ Analysis.claude_tip # ""
        /\ Analysis.claude_next # ""

\* a text with neither a typed line nor a message has been analyzed: the tip
\* is the sentinel kind with an empty message
C13_Witness ==
    /\ analysis.status = "return"
    /\ traceback_text = "KeyboardInterrupt"
    /\ Analysis.parsed_error.error_message = ""
    /\ Analysis.claude_tip = "UnknownError: "
    /\ Analysis.claude_next = "Review the error and fix the underlying issue."

\* a catalog template as claude_next presents it: interpolated when every
\* placeholder has a value, the raw template otherwise
InterpolatedOrRaw(template, values) ==
    IF Placeholders(template) \subseteq DOMAIN values
    THEN Substituted(template, values)
    ELSE template

\* C14: claude_next is chosen in this order: (a) for ModuleNotFoundError the
\* install instruction naming the resolved package, or the generic install
\* instruction when no package was extracted; (b) for NameError "Define
\* '<name>' before using it, or check for typos." with the extracted name;
\* (c) for FileNotFoundError the fixed verify-the-path text; (d) for any other
\* kind with a catalog action_template, that template interpolated, or the raw
\* template when a placeholder is missing; (e) otherwise the generic
\* review-and-fix text.  Branches (a) to (c) win over the catalog's templates
\* for those kinds.
C14_NextByPrecedence ==
    analysis.status = "return" =>
        LET p == Analysis.parsed_error
            kind == p.error_type
            values == p.extracted_values
        IN Analysis.claude_next =
               IF kind = "ModuleNotFoundError"
               THEN IF "package" \in DOMAIN values
                    THEN "Install the missing package using: uv add " \o values["package"]
                    ELSE "Install the missing module using uv or pip."
               ELSE IF kind = "NameError"
               THEN "Define '" \o (IF "name" \in DOMAIN values THEN values["name"] ELSE "")
                    \o "' before using it, or check for typos."
               ELSE IF kind = "FileNotFoundError"
               THEN "Verify the file path. Use os.getcwd() to check current directory."
               ELSE IF kind \in DOMAIN ERROR_FIX_MAP /\ ERROR_FIX_MAP[kind].action_template # None
               THEN InterpolatedOrRaw(ERROR_FIX_MAP[kind].action_template[1], values)
               ELSE "Review the error and fix the underlying issue."

\* a NameError has been analyzed: the hard-coded text with the name, not the
\* catalog's "Define the variable before use, or check for typos."
C14_Witness ==
    /\ analysis.status = "return"
    /\ Analysis.parsed_error.error_type = "NameError"
    /\ Analysis.fix_suggestion # None
    /\ Analysis.fix_suggestion[1].action_template
           = Some("Define the variable before use, or check for typos.")
    /\ Analysis.claude_next = "Define 'x' before using it, or check for typos."

\* C15: suggested_action is "uv add " followed by the resolved package for a
\* ModuleNotFoundError whose package was extracted; otherwise, when the
\* catalog entry of the kind has an action_template, that template
\* interpolated, or None when a placeholder is missing; otherwise None.
C15_ActionInstallOrTemplate ==
    analysis.status = "return" =>
        LET p == Analysis.parsed_error
            kind == p.error_type
            values == p.extracted_values
        IN Analysis.suggested_action =
               IF kind = "ModuleNotFoundError" /\ "package" \in DOMAIN values
               THEN Some("uv add " \o values["package"])
               ELSE IF kind \in DOMAIN ERROR_FIX_MAP /\ ERROR_FIX_MAP[kind].action_template # None
               THEN IF Placeholders(ERROR_FIX_MAP[kind].action_template[1])
                           \subseteq DOMAIN values
                    THEN Some(Substituted(ERROR_FIX_MAP[kind].action_template[1], values))
                    ELSE None
               ELSE None

\* a missing module with a mapped package has been analyzed: the command
\* names the package, not the module
C15_Witness ==
    /\ analysis.status = "return"
    /\ traceback_text = "ModuleNotFoundError: No module named 'cv2'"
    /\ Analysis.parsed_error.extracted_values["module"] = "cv2"
    /\ Analysis.suggested_action = Some("uv add opencv-python")

-----------------------------------------------------------------------------
(* The error path of the response wrapper, checked under Spec. *)

\* the ErrorAnalysis of the text passed to the last call
CallAnalysis == analyze_error(call.args[1]).value[1]

\* the last call went through wrap_execution_error with a text whose parsed
\* kind has no catalog entry, and returned
UnknownKindWrapped ==
    /\ call.op = "wrap_execution_error"
    /\ ret.status = "return"
    /\ CallAnalysis.parsed_error.error_type \notin DOMAIN ERROR_FIX_MAP

\* what analyze_error returns for a kind without a catalog entry, and the
\* status and error_details.type of the wrapped response
UnknownKindGuidance ==
    LET p == CallAnalysis.parsed_error
    IN /\ CallAnalysis.fix_suggestion = None
       /\ \/ CallAnalysis.claude_tip = Generic(p, FALSE)
          \/ /\ p.file_path # None /\ p.line_number # None
             /\ CallAnalysis.claude_tip = Generic(p, TRUE)
       /\ CallAnalysis.claude_next = "Review the error and fix the underlying issue."
       /\ CallAnalysis.suggested_action = None
       /\ Returned["status"] = PyStr("error")
       /\ Returned["error_details"].t = "dict"
       /\ Returned["error_details"].v.type = p.error_type

\* C16 as stated: for a trace whose parsed kind is not a key of ERROR_FIX_MAP,
\* analyze_error returns fix_suggestion None, the generic tip, the generic
\* claude_next and suggested_action None, and the output of the error-path
\* wrapper has status "error", error_details.type equal to the parsed kind,
\* and no suggested_action.
C16_UnknownKindNoAction ==
    UnknownKindWrapped =>
        /\ UnknownKindGuidance
        /\ "suggested_action" \notin DOMAIN Returned

\* C16: for a trace whose parsed kind is not a key of ERROR_FIX_MAP,
\* analyze_error returns fix_suggestion None, the generic tip, the generic
\* claude_next and suggested_action None, and the output of the error-path
\* wrapper has status "error", error_details.type equal to the parsed kind,
\* and no suggested_action other than the one the response passed in already
\* carried, which it keeps.
C16_UnknownKindNoActionAdded ==
    UnknownKindWrapped =>
        /\ UnknownKindGuidance
        /\ IF "suggested_action" \in DOMAIN call.before
           THEN Preserved("suggested_action")
           ELSE "suggested_action" \notin DOMAIN Returned

\* the spec's example: a response with partial output has gone through the
\* error path with "CustomError: oops"
C16_Witness ==
    /\ UnknownKindWrapped
    /\ call.args = <<"CustomError: oops">>
    /\ DOMAIN call.before = {"partial_output"}
    /\ Returned["error_details"].v.type = "CustomError"
    /\ Returned["claude_tip"] = PyStr("CustomError: oops")
    /\ DOMAIN Returned = {"partial_output", "status", "claude_tip", "claude_next",
                          "error_details"}

\* C17: the dict that wrap_execution_error returns has status "error",
\* whatever status the response had; claude_tip and claude_next equal to the
\* strings of the analysis of the text; error_details a dict with exactly the
\* keys type, message, file, line and function, equal to the error_type,
\* error_message, file_path, line_number and function_name of the ParsedError
\* (None where the parser found none); and suggested_action equal to the
\* action of the analysis when one was derived.
C17_ErrorResultFields ==
    (call.op = "wrap_execution_error" /\ ret.status = "return") =>
        LET analyzed == CallAnalysis
            p == analyzed.parsed_error
        IN /\ {"status", "claude_tip", "claude_next", "error_details"}
                  \subseteq DOMAIN Returned
           /\ Returned["status"] = PyStr("error")
           /\ Returned["claude_tip"] = PyStr(analyzed.claude_tip)
           /\ Returned["claude_next"] = PyStr(analyzed.claude_next)
           /\ Returned["error_details"].t = "dict"
           /\ DOMAIN Returned["error_details"].v
                  = {"type", "message", "file", "line", "function"}
           /\ Returned["error_details"].v["type"] = p.error_type
           /\ Returned["error_details"].v["message"] = p.error_message
           /\ Returned["error_details"].v["file"] = p.file_path
           /\ Returned["error_details"].v["line"] = p.line_number
           /\ Returned["error_details"].v["function"] = p.function_name
           /\ analyzed.suggested_action # None =>
                  /\ "suggested_action" \in DOMAIN Returned
                  /\ Returned["suggested_action"] = PyStr(analyzed.suggested_action[1])

\* a response with status "failed" has gone through wrap_execution_error with
\* the traceback of a missing cv2: status "error", the frame in error_details,
\* the install command as suggested_action
C17_Witness ==
    /\ call.op = "wrap_execution_error"
    /\ ret.status = "return"
    /\ "status" \in DOMAIN call.before
    /\ call.before["status"] = PyStr("failed")
    /\ Returned["status"] = PyStr("error")
    /\ Returned["claude_tip"] = PyStr("Module 'cv2' is not installed.")
    /\ Returned["error_details"]
           = PyDict([type |-> "ModuleNotFoundError",
                     message |-> "No module named 'cv2'",
                     file |-> Some("test.py"),
                     line |-> Some(1),
                     function |-> Some("<module>")])
    /\ Returned["suggested_action"] = PyStr("uv add opencv-python")

-----------------------------------------------------------------------------
(* The success path of the response wrapper, checked under SpecSuccess. *)

\* the last call went through wrap_execution_success and returned
SuccessWrapped == call.op = "wrap_execution_success" /\ ret.status = "return"

\* the output and the variable names passed to the last call, no names for None
GivenOutput == call.args[1]
GivenNames == IF call.args[2] = None THEN <<>> ELSE call.args[2][1]

\* a name that ends in "_df" or is "df"
DataFrameLike(v) ==
    \/ v = "df"
    \/ Len(v) >= 3 /\ SubSeq(v, Len(v) - 2, Len(v)) = "_df"

\* the dataframe-like names among names, in their order
RECURSIVE Flagged(_)
Flagged(names) ==
    IF names = <<>> THEN <<>>
    ELSE (IF DataFrameLike(Head(names)) THEN <<Head(names)>> ELSE <<>>)
         \o Flagged(Tail(names))

\* names separated by ", "
RECURSIVE Listed(_)
Listed(names) ==
    IF Len(names) = 1 THEN names[1]
    ELSE names[1] \o ", " \o Listed(Tail(names))

\* the sentence about the execution, by whether there is non-empty output
ExecutionSentence(output) ==
    IF output \in {None, Some("")}
    THEN "Code executed successfully (no output)."
    ELSE "Code executed successfully with output."

\* C18: wrap_execution_success takes for dataframe-like exactly the names that
\* end in "_df" or equal "df"; when there is at least one, claude_tip lists
\* all of them in their input order, the list standing before the sentence
\* with the namespace count, and claude_next suggests .head() or .describe()
\* on the first of them; the sentence about the execution depends only on
\* whether output is non-empty.
C18_DataFramesListedFirst ==
    SuccessWrapped =>
        LET tip == Returned["claude_tip"].v
            next == Returned["claude_next"].v
            executed == ExecutionSentence(GivenOutput)
            flagged == Flagged(GivenNames)
        IN /\ StartsWith(tip, executed)
           /\ IF flagged # <<>>
              THEN /\ StartsWith(tip, executed \o " DataFrames available: "
                                      \o Listed(flagged) \o " Namespace contains ")
                   /\ StartsWith(next, "Explore data with " \o flagged[1] \o ".head() or "
                                       \o flagged[1] \o ".describe()")
              ELSE /\ ~Contains(tip, "DataFrames available")
                   /\ ~Contains(next, "Explore data with")

\* three names, the first not dataframe-like, have been passed with an empty
\* output: the two others are listed in their order, the first of them is the
\* one to explore
C18_Witness ==
    /\ SuccessWrapped
    /\ call.args = <<Some(""), Some(<<"x", "sales_df", "df">>)>>
    /\ Returned["claude_tip"] = PyStr("Code executed successfully (no output). DataFrames available: sales_df, df Namespace contains 3 variable(s).")
    /\ Returned["claude_next"] = PyStr("Explore data with sales_df.head() or sales_df.describe() Use jupyter_inspect_namespace() to see all defined variables.")

\* C19: with no dataframe-like name in a non-empty namespace_vars,
\* wrap_execution_success reports the count in claude_tip ("Namespace contains
\* N variable(s).") and suggests the listing of the namespace in claude_next;
\* with namespace_vars None or empty, claude_tip has no count and claude_next
\* is "Continue with your analysis.".
C19_CountOrDefault ==
    (SuccessWrapped /\ Flagged(GivenNames) = <<>>) =>
        LET tip == Returned["claude_tip"].v
            next == Returned["claude_next"].v
        IN IF GivenNames # <<>>
           THEN /\ tip = ExecutionSentence(GivenOutput) \o " Namespace contains "
                         \o IntToStr(Len(GivenNames)) \o " variable(s)."
                /\ next = "Use jupyter_inspect_namespace() to see all defined variables."
           ELSE /\ ~Contains(tip, "Namespace contains")
                /\ tip = ExecutionSentence(GivenOutput)
                /\ next = "Continue with your analysis."

\* two names, neither dataframe-like though one ends in "df", have been passed
C19_Witness ==
    /\ SuccessWrapped
    /\ call.args = <<Some("Plot generated"), Some(<<"pdf", "x">>)>>
    /\ Returned["claude_tip"] = PyStr("Code executed successfully with output. Namespace contains 2 variable(s).")
    /\ Returned["claude_next"] = PyStr("Use jupyter_inspect_namespace() to see all defined variables.")

-----------------------------------------------------------------------------
(* The status of a wrapped response, checked under Spec. *)

\* C20: the status of every dict a ResponseWrapper method returns is one of
\* "success", "error", "running" and "stopped", and the method fixes which:
\* "success" for wrap_execution_success, wrap_notebook_created,
\* wrap_cell_added and wrap_generic_success, "error" for wrap_execution_error,
\* and for wrap_kernel_status "running" when is_alive and "stopped" otherwise,
\* the execution count being appended to the tip only when the kernel is
\* alive and a count, 0 included, was passed.
C20_StatusByMethod ==
    (call.op \notin {"none", "enrich_response"} /\ ret.status = "return") =>
        /\ {"status", "claude_tip"} \subseteq DOMAIN Returned
        /\ Returned["status"].t = "str"
        /\ Returned["status"].v \in {"success", "error", "running", "stopped"}
        /\ call.op \in {"wrap_execution_success", "wrap_notebook_created",
                        "wrap_cell_added", "wrap_generic_success"}
               => Returned["status"].v = "success"
        /\ call.op = "wrap_execution_error" => Returned["status"].v = "error"
        /\ call.op = "wrap_kernel_status" =>
               LET is_alive == call.args[1]
                   execution_count == call.args[2]
                   tip == Returned["claude_tip"].v
               IN /\ Returned["status"].v = (IF is_alive THEN "running" ELSE "stopped")
                  /\ Contains(tip, "Execution count") <=> (is_alive /\ execution_count # None)
                  /\ (is_alive /\ execution_count # None) =>
                         EndsWith(tip, " Execution count: "
                                       \o IntToStr(execution_count[1]) \o ".")

\* the status of a live kernel with execution count 0 has been wrapped around
\* a response whose status was "failed"
C20_Witness ==
    /\ call.op = "wrap_kernel_status"
    /\ ret.status = "return"
    /\ call.args = <<TRUE, Some(0)>>
    /\ "status" \in DOMAIN call.before
    /\ call.before["status"] = PyStr("failed")
    /\ Returned["status"] = PyStr("running")
    /\ Returned["claude_tip"]
           = PyStr("Kernel is running and ready for execution. Execution count: 0.")

-----------------------------------------------------------------------------
(* Independence of the calls, checked under Spec. *)

\* what entry point op returns for the dict r and the arguments args when it
\* is the only call ever made: r is the only dict there is
FirstCall(op, r, args) ==
    CASE op = "enrich_response" -> enrich_response(<<r>>, 1, args[1])
      [] op = "wrap_execution_success" -> wrap_execution_success(<<r>>, 1, args[1], args[2])
      [] op = "wrap_execution_error" -> wrap_execution_error(<<r>>, 1, args[1])
      [] op = "wrap_notebook_created" -> wrap_notebook_created(<<r>>, 1, args[1], args[2])
      [] op = "wrap_cell_added" -> wrap_cell_added(<<r>>, 1, args[1], args[2])
      [] op = "wrap_kernel_status" -> wrap_kernel_status(<<r>>, 1, args[1], args[2])
      [] op = "wrap_generic_success" -> wrap_generic_success(<<r>>, 1, args[1], args[2])

-----------------------------------------------------------------------------
(* The catalog against the extraction rules, checked under SpecParse. *)

\* the messages of the typed lines among the last lines of the texts
TailMessages == {KindAndMessage(line)[2] : line \in {l \in TailLines : IsTyped(l)}}

\* the keys the extraction rule of a kind stores for some of these messages
Populated(kind) ==
    UNION {DOMAIN extract_error_values(kind, message) : message \in TailMessages}

\* C22: for every entry of ERROR_FIX_MAP, every placeholder of its
\* message_template is a key that the extraction rule of the same kind in
\* _extract_error_values can store, so that for each kind of the catalog some
\* message gives the template as tip and not the generic rendering.
C22_PlaceholdersPopulated ==
    (analysis.status = "return"
     /\ Analysis.parsed_error.error_type \in DOMAIN ERROR_FIX_MAP) =>
        LET kind == Analysis.parsed_error.error_type
        IN Placeholders(ERROR_FIX_MAP[kind].message_template) \subseteq Populated(kind)

-----------------------------------------------------------------------------
(* The reported location, checked under SpecParse. *)

\* C23: whenever parse_traceback reports a line_number it is a positive
\* integer, and a file_path is reported with it; a frame line such as
\* File "x", line 0 gives no line number that is present and not positive.
C23_LineNumberPositive ==
    (parsed.status = "return" /\ Parsed.line_number # None) =>
        /\ Parsed.line_number[1] >= 1
        /\ Parsed.file_path # None

-----------------------------------------------------------------------------
(* The reported code context, checked under SpecParse. *)

\* C24: whenever parse_traceback reports a code_context, it is the trimmed
\* line that follows the last frame line, the one that supplied the reported
\* file_path and line_number; a snippet that followed an earlier frame is
\* never reported together with the location of a later frame.
C24_ContextOfLastFrame ==
    (parsed.status = "return" /\ Parsed.code_context # None) =>
        LET lines == TextLines
            frames == FrameLines(lines)
        IN /\ frames # {}
           /\ Max(frames) < Len(lines)
           /\ Parsed.code_context = Some(Strip(lines[Max(frames) + 1]))

-----------------------------------------------------------------------------
(* The keys of the package map, checked under SpecResolver. *)

\* C25: every key k of PACKAGE_NAME_MAP is reachable by the resolver:
\* get_correct_package_name(k) is PACKAGE_NAME_MAP[k] for every key, dotted
\* keys such as "google.cloud" included.
C25_EveryKeyResolves ==
    (package_name.status # "none" /\ import_name \in DOMAIN PACKAGE_NAME_MAP) =>
        package_name = Return(PACKAGE_NAME_MAP[import_name])

-----------------------------------------------------------------------------
(* Repeated error-path enrichment, checked under Spec. *)

\* the dict enrich_response returns for the dict r and the trace text
Enriched(r, text) ==
    LET first == enrich_response(<<r>>, 1, text)
    IN first.heap[first.result.value[1]]

\* dicts d and e agree on key k: both lack it, or both have it with one value
SameAt(d, e, k) ==
    /\ k \in DOMAIN d <=> k \in DOMAIN e
    /\ k \in DOMAIN d => d[k] = e[k]

\* C26 as stated: for all r, t1 and t2, enrich_response(enrich_response(r,
\* t1), t2) has the same claude_tip, claude_next and error_details and the
\* same presence and value of suggested_action as enrich_response(r, t2); a
\* suggested_action derived from t1 does not survive when t2 yields none.
C26_OnlyLastTrace ==
    (/\ call.n >= 2
     /\ call.op = "enrich_response"
     /\ ret.status = "return"
     /\ \E t1 \in EnrichTexts : call.before = Enriched(heap[1], t1)) =>
        LET direct == Enriched(heap[1], call.args[1])
        IN \A k \in {"claude_tip", "claude_next", "error_details", "suggested_action"} :
               SameAt(Returned, direct, k)

\* C26: after any sequence of enrichments of a response r, the result of
\* enrich_response with a trace t2 has the claude_tip, claude_next and
\* error_details of enrich_response(r, t2); its suggested_action is that of
\* enrich_response(r, t2) when t2 yields an action, and otherwise the one
\* the dict passed in carried, if any, so that an action derived from an
\* earlier trace survives; enriching twice with the same trace equals
\* enriching once.
C26_LastTraceKeepsAction ==
    (call.n >= 2 /\ call.op = "enrich_response" /\ ret.status = "return") =>
        LET direct == Enriched(heap[1], call.args[1])
            derives == DerivesAction(call.args[1])
        IN /\ \A k \in {"claude_tip", "claude_next", "error_details"} :
                  SameAt(Returned, direct, k)
           /\ derives => SameAt(Returned, direct, "suggested_action")
           /\ ~derives => SameAt(Returned, call.before, "suggested_action")
           /\ call.before = direct => Returned = call.before

\* a response without an action has been enriched with the trace of a missing
\* cv2 and the result with "CustomError: oops": the install command is still
\* there, next to the details of the CustomError
C26_Witness ==
    /\ call.n = 2
    /\ call.op = "enrich_response"
    /\ ret.status = "return"
    /\ call.args = <<"CustomError: oops">>
    /\ "suggested_action" \notin DOMAIN heap[1]
    /\ "error_details" \in DOMAIN call.before
    /\ call.before["error_details"].v.type = "ModuleNotFoundError"
    /\ Returned["error_details"].v.type = "CustomError"
    /\ Returned["claude_tip"] = PyStr("CustomError: oops")
    /\ Returned["suggested_action"] = PyStr("uv add opencv-python")

====
